---- MODULE Spec2Model ----
(***************************************************************************)
(* Model of the headline-sentiment recommendation pipeline of              *)
(* investment_agent.py: NewsAPITool.get_trending_news,                     *)
(* GoogleSearchTool.google_search, InvestmentAgent.get_headline_sentiment  *)
(* and InvestmentAgent.generate_recommendations.                           *)
(*                                                                         *)
(* Python strings are sequences of one-character strings, so that lower()  *)
(* and the substring test `word in title` are computed, not assumed.       *)
(* A Python value that may be None is a record [kind, text].               *)
(***************************************************************************)
EXTENDS Integers, Sequences, FiniteSets, TLC

VARIABLES
    stock_universe,   \* self.stock_universe (ordered, duplicates allowed)
    news_enabled,     \* self.news_tool.enabled
    top_n,            \* argument of generate_recommendations
    pc,               \* "idle", "loop", "done" or "raised"
    idx,              \* 1-based position of the loop in stock_universe
    recommendations,  \* the local list `recommendations`
    progress,         \* number of progress.advance(task) calls
    error_log,        \* logger.error records of the per-candidate handler
    lookup_calls,     \* positions for which get_company_info was called
    outcomes,         \* history: what each iteration's try-body did
    result,           \* the list returned by generate_recommendations
    call_pc,          \* one get_headline_sentiment call: "ready" / "returned"
    call_in,          \* the adapter responses of that call
    call_out          \* its return value or the exception it raised

vars == << stock_universe, news_enabled, top_n, pc, idx, recommendations,
           progress, error_log, lookup_calls, outcomes, result,
           call_pc, call_in, call_out >>

pipeline_vars == << stock_universe, news_enabled, top_n, pc, idx,
                    recommendations, progress, error_log, lookup_calls,
                    outcomes, result >>

call_vars == << call_pc, call_in, call_out >>

----------------------------------------------------------------------------
(* Bounds of the model *)

MaxUniverse == 2    \* longest stock_universe explored
MaxTopN == 2        \* largest top_n explored
MaxNews == 2        \* most articles in one news response (single-call spec)
MaxGoogle == 2      \* most results in one search response (single-call spec)

----------------------------------------------------------------------------
(* Python strings *)

UpperCase ==
  <<"A", "B", "C", "D", "E", "F", "G", "H", "I", "J", "K", "L", "M",
    "N", "O", "P", "Q", "R", "S", "T", "U", "V", "W", "X", "Y", "Z">>

LowerCase ==
  <<"a", "b", "c", "d", "e", "f", "g", "h", "i", "j", "k", "l", "m",
    "n", "o", "p", "q", "r", "s", "t", "u", "v", "w", "x", "y", "z">>

\* str.lower() on one character
lower_char(c) ==
    IF \E k \in 1..26 : UpperCase[k] = c
    THEN LowerCase[CHOOSE k \in 1..26 : UpperCase[k] = c]
    ELSE c

\* str.lower()
str_lower(t) == [k \in 1..Len(t) |-> lower_char(t[k])]

\* `w in t` for two strings
str_in(w, t) ==
    \E k \in 1..(Len(t) - Len(w) + 1) : SubSeq(t, k, k + Len(w) - 1) = w

PyStr(s) == [kind |-> "str", text |-> s]
PyNone == [kind |-> "none", text |-> <<>>]

----------------------------------------------------------------------------
(* Headlines used as adapter data *)

RecordGain == <<"R", "e", "c", "o", "r", "d", " ", "g", "a", "i", "n">>
SharesDrop == <<"S", "h", "a", "r", "e", "s", " ", "d", "r", "o", "p">>
ProfitFalls == <<"P", "r", "o", "f", "i", "t", " ", "f", "a", "l", "l", "s">>
QuietDay == <<"Q", "u", "i", "e", "t", " ", "d", "a", "y">>
UP == <<"U", "P">>

Headlines == { RecordGain, SharesDrop, ProfitFalls, QuietDay, UP }

\* sequences over S of length 0..n
SeqsUpTo(S, n) == UNION { [1..k -> S] : k \in 0..n }

----------------------------------------------------------------------------
(* NewsAPITool.get_trending_news *)

\* an article is a dict that may lack 'title' or carry a null title
Article(t) == [has_title |-> TRUE, title |-> PyStr(t)]
ArticleNullTitle == [has_title |-> TRUE, title |-> PyNone]
ArticleNoTitle == [has_title |-> FALSE, title |-> PyNone]

\* outcome of requests.get / raise_for_status / response.json
HttpFailed == [ok |-> FALSE, articles |-> <<>>]
HttpOk(as) == [ok |-> TRUE, articles |-> as]

get_trending_news(enabled, http) ==
    IF ~enabled THEN <<>>
    ELSE IF ~http.ok THEN <<>>
    ELSE http.articles

----------------------------------------------------------------------------
(* GoogleSearchTool.google_search *)

SearchResult(t) == [title |-> PyStr(t)]
SearchResultNoTitle == [title |-> PyNone]

\* outcome of the googlesearch call and of building the result models
SearchFailed == [ok |-> FALSE, results |-> <<>>]
SearchOk(rs) == [ok |-> TRUE, results |-> rs]

\* no handler in google_search: a failure propagates to the caller
google_search(search) ==
    IF ~search.ok
    THEN [raised |-> TRUE, exc |-> "Exception", results |-> <<>>]
    ELSE [raised |-> FALSE, exc |-> "", results |-> search.results]

----------------------------------------------------------------------------
(* InvestmentAgent.get_headline_sentiment *)

positive_words ==
  << <<"s", "u", "r", "g", "e">>,
     <<"r", "i", "s", "e">>,
     <<"g", "a", "i", "n">>,
     <<"u", "p">>,
     <<"p", "o", "s", "i", "t", "i", "v", "e">>,
     <<"g", "r", "o", "w", "t", "h">>,
     <<"p", "r", "o", "f", "i", "t">>,
     <<"s", "u", "c", "c", "e", "s", "s">>,
     <<"b", "e", "a", "t">>,
     <<"r", "e", "c", "o", "r", "d">>,
     <<"s", "t", "r", "o", "n", "g">> >>

negative_words ==
  << <<"f", "a", "l", "l">>,
     <<"d", "r", "o", "p">>,
     <<"d", "e", "c", "l", "i", "n", "e">>,
     <<"d", "o", "w", "n">>,
     <<"n", "e", "g", "a", "t", "i", "v", "e">>,
     <<"l", "o", "s", "s">>,
     <<"c", "r", "a", "s", "h">>,
     <<"r", "i", "s", "k">>,
     <<"m", "i", "s", "s">>,
     <<"w", "e", "a", "k">>,
     <<"l", "a", "w", "s", "u", "i", "t">> >>

\* [a.get('title', '') for a in news_articles]
news_titles(news_articles) ==
    [k \in 1..Len(news_articles) |->
        IF news_articles[k].has_title THEN news_articles[k].title
        ELSE PyStr(<<>>)]

\* [r.title or '' for r in getattr(google_results, 'results', [])]
google_titles(results) ==
    [k \in 1..Len(results) |->
        IF results[k].title.kind = "none" \/ results[k].title.text = <<>>
        THEN PyStr(<<>>)
        ELSE results[k].title]

\* any(word in t.lower() for word in words)
any_word_in(words, t) ==
    \E k \in 1..Len(words) : str_in(words[k], str_lower(t.text))

\* counts every lexicon word found in the title, as get_market_sentiment does
title_hits_per_word(words, t) ==
    Cardinality({ k \in 1..Len(words) : str_in(words[k], str_lower(t.text)) })

\* an if/elif classifier: a title with a positive word is never negative
title_hits_exclusive(words, t) ==
    IF words = negative_words /\ any_word_in(positive_words, t) THEN 0
    ELSE IF any_word_in(words, t) THEN 1 ELSE 0

\* what one title adds to the sum: the boolean any(...) as 0 or 1
title_hits(words, t) == IF any_word_in(words, t) THEN 1 ELSE 0

\* sum(any(...) for t in all_titles)
RECURSIVE count_matches(_, _)
count_matches(words, titles) ==
    IF titles = <<>> THEN 0
    ELSE title_hits(words, Head(titles)) + count_matches(words, Tail(titles))

RECURSIVE GCD(_, _)
GCD(a, b) == IF b = 0 THEN a ELSE GCD(b, a % b)

Abs(n) == IF n < 0 THEN -n ELSE n

\* The float n / d.  For the small integers of this model two quotients are
\* the same float exactly when they are the same rational, so a float is
\* represented by its reduced fraction.
Quotient(n, d) ==
    LET g == GCD(Abs(n), d)
    IN [num |-> n \div g, den |-> d \div g]

Zero == [num |-> 0, den |-> 1]

\* all_titles[:3]
first_three(titles) == SubSeq(titles, 1, IF Len(titles) < 3 THEN Len(titles) ELSE 3)

NoSentiment ==
    [symbol |-> "", positive_headlines |-> 0, negative_headlines |-> 0,
     total_headlines |-> 0, sentiment_score |-> Zero,
     sample_headlines |-> <<>>]

\* (pos - neg) / total if total > 0 else 0
sentiment_score_of(pos, neg, total) ==
    IF total > 0 THEN Quotient(pos - neg, total) ELSE Zero

\* google_titles + news_titles
search_titles_first(from_news, from_google) == from_google \o from_news

\* all_titles = news_titles + google_titles
combine_titles(from_news, from_google) == from_news \o from_google

\* Returns [raised, exc, value]: either the dict the method returns or the
\* exception that leaves it.
get_headline_sentiment(symbol, enabled, http, search) ==
    LET news_articles == get_trending_news(enabled, http)
        google_results == google_search(search)
        all_titles == combine_titles(news_titles(news_articles),
                                     google_titles(google_results.results))
        pos == count_matches(positive_words, all_titles)
        neg == count_matches(negative_words, all_titles)
        total == Len(all_titles)
    IN  IF google_results.raised
        THEN [raised |-> TRUE, exc |-> google_results.exc,
              value |-> NoSentiment]
        ELSE IF \E k \in 1..Len(all_titles) : all_titles[k].kind = "none"
        THEN \* None.lower()
             [raised |-> TRUE, exc |-> "AttributeError",
              value |-> NoSentiment]
        ELSE [raised |-> FALSE, exc |-> "",
              value |-> [symbol |-> symbol,
                         positive_headlines |-> pos,
                         negative_headlines |-> neg,
                         total_headlines |-> total,
                         sentiment_score |->
                             sentiment_score_of(pos, neg, total),
                         sample_headlines |-> first_three(all_titles)]]

----------------------------------------------------------------------------
(* One call of get_headline_sentiment on drawn adapter responses *)

Symbols == { "VLO", "MPC" }

ArticleValues ==
    { Article(t) : t \in Headlines } \cup { ArticleNullTitle, ArticleNoTitle }

SearchResultValues ==
    { SearchResult(t) : t \in Headlines } \cup { SearchResultNoTitle }

HttpResponses ==
    { HttpFailed } \cup { HttpOk(as) : as \in SeqsUpTo(ArticleValues, MaxNews) }

SearchResponses ==
    { SearchFailed }
      \cup { SearchOk(rs) : rs \in SeqsUpTo(SearchResultValues, MaxGoogle) }

NoCall == [raised |-> FALSE, exc |-> "", value |-> NoSentiment]

CallInit ==
    /\ call_pc = "ready"
    /\ call_in \in [symbol : {"VLO"}, enabled : BOOLEAN,
                    http : HttpResponses, search : SearchResponses]
    /\ call_out = NoCall

CallSentiment ==
    /\ call_pc = "ready"
    /\ call_pc' = "returned"
    /\ call_out' = get_headline_sentiment(call_in.symbol, call_in.enabled,
                                          call_in.http, call_in.search)
    /\ UNCHANGED << call_in, pipeline_vars >>

----------------------------------------------------------------------------
(* yahoo_tool.get_company_info and json.loads *)

\* texts the company lookup may return
DocFull == "{\"Name\": \"Acme Corp\", \"Sector\": \"Energy\"}"
DocNameOnly == "{\"Name\": \"Acme Corp\"}"
DocEmpty == "{}"
DocList == "[1]"
DocError == "Error fetching company profile"

NoFields == [k \in {} |-> ""]

\* json.loads on the texts above: ok = FALSE is JSONDecodeError
json_loads(s) ==
    CASE s = DocFull ->
           [ok |-> TRUE, type |-> "dict",
            fields |-> [k \in {"Name", "Sector"} |->
                           IF k = "Name" THEN "Acme Corp" ELSE "Energy"]]
      [] s = DocNameOnly ->
           [ok |-> TRUE, type |-> "dict",
            fields |-> [k \in {"Name"} |-> "Acme Corp"]]
      [] s = DocEmpty -> [ok |-> TRUE, type |-> "dict", fields |-> NoFields]
      [] s = DocList -> [ok |-> TRUE, type |-> "list", fields |-> NoFields]
      [] OTHER -> [ok |-> FALSE, type |-> "", fields |-> NoFields]

\* a validity probe without its try/except
is_valid_json_unguarded(s) == TRUE

is_valid_json(s) == json_loads(s).ok

\* company_data.get(key, default) on a dict
dict_get(data, key, default) ==
    IF key \in DOMAIN data.fields THEN data.fields[key] ELSE default

\* what the call of get_company_info does: raise, or return a value
LookupRaised == [raised |-> TRUE, kind |-> "none", text |-> ""]
LookupNone == [raised |-> FALSE, kind |-> "none", text |-> ""]
LookupStr(s) == [raised |-> FALSE, kind |-> "str", text |-> s]
LookupNotCalled == [raised |-> FALSE, kind |-> "uncalled", text |-> ""]

LookupOutcomes ==
    { LookupRaised, LookupNone }
      \cup { LookupStr(s) : s \in {DocFull, DocNameOnly, DocEmpty, DocList,
                                   DocError} }

----------------------------------------------------------------------------
(* InvestmentAgent.generate_recommendations: the body of the try *)

\* f"{score:.2f}": hundredths, rounded to nearest, ties to even
format_2f(score) ==
    LET n == Abs(score.num) * 100
        q == n \div score.den
        r == n % score.den
        h == IF 2 * r > score.den THEN q + 1
             ELSE IF 2 * r = score.den /\ q % 2 = 1 THEN q + 1
             ELSE q
    IN  [negative |-> score.num < 0, hundredths |-> h]

\* StockRecommendation(...); `occurrence` is not a field of the dataclass,
\* it records the position in stock_universe the record was built for
StockRecommendation(symbol, occ, company_name, sector, sentiment) ==
    [symbol |-> symbol,
     company_name |-> company_name,
     current_price |-> 0,
     confidence_score |-> sentiment.sentiment_score,
     reasoning |-> [score |-> format_2f(sentiment.sentiment_score),
                    sample |-> sentiment.sample_headlines],
     sector |-> sector,
     market_cap |-> "None",
     pe_ratio |-> "None",
     news_sentiment |-> "None",
     trend_alignment |-> "None",
     occurrence |-> occ]

NoRec == StockRecommendation("", 0, "", "", NoSentiment)

\* What one pass through the try-body did for `symbol`: `kind` is "skip"
\* (continue on no headlines), "rec" (a record was built) or "exc" (an
\* exception left the body); `sent` is what get_headline_sentiment did and
\* `lookup` what get_company_info did, if it was called.
Outcome(symbol, kind, exc, called, lookup, rec, sent) ==
    [symbol |-> symbol, kind |-> kind, exc |-> exc,
     lookup_called |-> called,
     lookup |-> IF called THEN lookup ELSE LookupNotCalled,
     rec |-> rec,
     collected |-> ~sent.raised,
     headlines |-> sent.value.total_headlines,
     score |-> sent.value.sentiment_score]

\* tests `< 0` in place of `== 0`
no_headlines_negative(sentiment) == sentiment.total_headlines < 0

\* if sentiment['total_headlines'] == 0
no_headlines(sentiment) == sentiment.total_headlines = 0

\* lines 252-276 for one symbol
try_body(symbol, occ, enabled, http, search, lookup) ==
    LET sent == get_headline_sentiment(symbol, enabled, http, search)
        sentiment == sent.value
        company_data == json_loads(lookup.text)
    IN  IF sent.raised
        THEN Outcome(symbol, "exc", sent.exc, FALSE, lookup, NoRec, sent)
        ELSE IF no_headlines(sentiment)
        THEN Outcome(symbol, "skip", "", FALSE, lookup, NoRec, sent)
        ELSE IF lookup.raised
        THEN Outcome(symbol, "exc", "Exception", TRUE, lookup, NoRec, sent)
        ELSE IF lookup.kind = "str" /\ is_valid_json(lookup.text)
        THEN IF company_data.type # "dict"
             THEN \* list.get
                  Outcome(symbol, "exc", "AttributeError", TRUE, lookup,
                          NoRec, sent)
             ELSE Outcome(symbol, "rec", "", TRUE, lookup,
                     StockRecommendation(symbol, occ,
                         dict_get(company_data, "Name", symbol),
                         dict_get(company_data, "Sector", "Unknown"),
                         sentiment),
                     sent)
        ELSE Outcome(symbol, "rec", "", TRUE, lookup,
                StockRecommendation(symbol, occ, symbol, "Unknown",
                                    sentiment),
                sent)

----------------------------------------------------------------------------
(* InvestmentAgent.generate_recommendations: filter, sort, truncate *)

\* a < b on two floats
Less(a, b) == a.num * b.den < b.num * a.den

\* keeps `>= 0` in place of `> 0`
nonnegative_only(recs) ==
    SelectSeq(recs, LAMBDA r : ~Less(r.confidence_score, Zero))

\* [r for r in recommendations if r.confidence_score > 0]
positive_only(recs) ==
    SelectSeq(recs, LAMBDA r : Less(Zero, r.confidence_score))

\* place r behind every element whose key is not smaller than r's
insert_desc(sorted, r) ==
    LET p == Cardinality({ j \in 1..Len(sorted) :
                 ~Less(sorted[j].confidence_score, r.confidence_score) })
    IN  SubSeq(sorted, 1, p) \o << r >> \o SubSeq(sorted, p + 1, Len(sorted))

RECURSIVE sort_from(_, _)
sort_from(sorted, rest) ==
    IF rest = <<>> THEN sorted
    ELSE sort_from(insert_desc(sorted, Head(rest)), Tail(rest))

\* an ascending sort followed by reverse(): equal keys end up reversed
insert_before_equal(sorted, r) ==
    LET p == Cardinality({ j \in 1..Len(sorted) :
                 Less(r.confidence_score, sorted[j].confidence_score) })
    IN  SubSeq(sorted, 1, p) \o << r >> \o SubSeq(sorted, p + 1, Len(sorted))

RECURSIVE sort_from_unstable(_, _)
sort_from_unstable(sorted, rest) ==
    IF rest = <<>> THEN sorted
    ELSE sort_from_unstable(insert_before_equal(sorted, Head(rest)),
                            Tail(rest))

list_sort_then_reverse(recs) == sort_from_unstable(<<>>, recs)

\* list.sort(key=lambda x: x.confidence_score, reverse=True): descending,
\* equal keys keep their original order
list_sort_reverse(recs) == sort_from(<<>>, recs)

\* recs[:n] with Python's meaning of a negative n
slice_to(recs, n) ==
    LET len == Len(recs)
        stop == IF n >= 0 THEN (IF n < len THEN n ELSE len)
                ELSE (IF len + n > 0 THEN len + n ELSE 0)
    IN  SubSeq(recs, 1, stop)

----------------------------------------------------------------------------
(* InvestmentAgent.generate_recommendations: the loop *)

TopNs == (-1)..MaxTopN

\* adapter responses drawn for one candidate of the pipeline
PipelineHttp ==
    { HttpFailed, HttpOk(<<>>), HttpOk(<< Article(RecordGain) >>),
      HttpOk(<< ArticleNullTitle >>) }

PipelineSearch ==
    { SearchFailed, SearchOk(<<>>), SearchOk(<< SearchResult(QuietDay) >>),
      SearchOk(<< SearchResult(SharesDrop) >>) }

\* `except Exception`: every exception type of the model derives from it
ExceptionClasses == { "Exception", "AttributeError" }

\* a handler written as `except AttributeError`
caught_attribute_error(exc) == exc = "AttributeError"

caught(exc) == exc \in ExceptionClasses

PipelineInit ==
    /\ stock_universe \in SeqsUpTo(Symbols, MaxUniverse)
    /\ news_enabled \in BOOLEAN
    /\ top_n = 0
    /\ pc = "idle"
    /\ idx = 0
    /\ recommendations = <<>>
    /\ progress = 0
    /\ error_log = <<>>
    /\ lookup_calls = {}
    /\ outcomes = <<>>
    /\ result = <<>>

CallIdle ==
    /\ call_pc = "idle"
    /\ call_in = [symbol |-> "VLO", enabled |-> FALSE, http |-> HttpFailed,
                  search |-> SearchFailed]
    /\ call_out = NoCall

\* generate_recommendations(n) is entered
EnterWith(n) ==
    /\ pc = "idle"
    /\ top_n' = n
    /\ pc' = "loop"
    /\ idx' = 1
    /\ recommendations' = <<>>
    /\ progress' = 0
    /\ UNCHANGED << stock_universe, news_enabled, error_log, lookup_calls,
                    outcomes, result, call_vars >>

\* a call with any top_n
Enter == \E n \in TopNs : EnterWith(n)

\* the default of the parameter, which is also what main() passes
DefaultTopN == 10

\* the call made by main()
EnterFromMain == EnterWith(DefaultTopN)

\* one iteration whose try-body does `o`
Iteration(o) ==
    /\ outcomes' = Append(outcomes, o)
    /\ lookup_calls' = IF o.lookup_called THEN lookup_calls \cup {idx}
                       ELSE lookup_calls
    /\ UNCHANGED << stock_universe, news_enabled, top_n, result, call_vars >>

\* Every outcome the try-body has for a symbol over the drawn responses of
\* the three adapters (a constant, evaluated once).
candidate_outcomes ==
    [sym \in Symbols |-> [enabled \in BOOLEAN |->
        { try_body(sym, 0, enabled, http, search, lookup) :
            http \in PipelineHttp, search \in PipelineSearch,
            lookup \in LookupOutcomes }]]

\* the outcomes of the iteration at idx
Guarded ==
    { [o EXCEPT !.rec.occurrence = IF o.kind = "rec" THEN idx ELSE 0] :
        o \in candidate_outcomes[stock_universe[idx]][news_enabled] }

\* progress.advance(task) at the end of an iteration
advance(done) == done + 1

\* a bare `continue`, without the advance in front of it
continue_without_advance(done) == done

\* progress.advance(task) in front of `continue`
advance_then_continue(done) == done + 1

\* total_headlines == 0: advance and continue
EvaluateSkipped ==
    /\ pc = "loop"
    /\ idx <= Len(stock_universe)
    /\ \E o \in Guarded :
              /\ o.kind = "skip"
              /\ Iteration(o)
    /\ progress' = advance_then_continue(progress)
    /\ idx' = idx + 1
    /\ UNCHANGED << pc, recommendations, error_log >>

\* a record is built and appended
EvaluateAppended ==
    /\ pc = "loop"
    /\ idx <= Len(stock_universe)
    /\ \E o \in Guarded :
              /\ o.kind = "rec"
              /\ Iteration(o)
              /\ recommendations' = Append(recommendations, o.rec)
    /\ progress' = advance(progress)
    /\ idx' = idx + 1
    /\ UNCHANGED << pc, error_log >>

\* an exception leaves the try-body: logged by the handler, or propagated
EvaluateFailed ==
    /\ pc = "loop"
    /\ idx <= Len(stock_universe)
    /\ \E o \in Guarded :
              /\ o.kind = "exc"
              /\ Iteration(o)
              /\ IF caught(o.exc)
                 THEN /\ error_log' = Append(error_log,
                            [symbol |-> stock_universe[idx],
                             occurrence |-> idx, exc |-> o.exc])
                      /\ recommendations' = recommendations
                      /\ progress' = advance(progress)
                      /\ idx' = idx + 1
                      /\ pc' = pc
                 ELSE /\ pc' = "raised"
                      /\ UNCHANGED << error_log, recommendations, progress,
                                      idx >>

\* lines 281-283 once the loop is exhausted
Finish ==
    /\ pc = "loop"
    /\ idx > Len(stock_universe)
    /\ recommendations' = list_sort_reverse(positive_only(recommendations))
    /\ result' = slice_to(recommendations', top_n)
    /\ pc' = "done"
    /\ UNCHANGED << stock_universe, news_enabled, top_n, idx, progress,
                    error_log, lookup_calls, outcomes, call_vars >>

Init == PipelineInit /\ CallIdle

Next ==
    \/ Enter
    \/ EvaluateSkipped
    \/ EvaluateAppended
    \/ EvaluateFailed
    \/ Finish

Spec == Init /\ [][Next]_vars

\* Once entered, the method keeps running: the iterations and the final
\* step are taken as long as they are possible.
Running ==
    \/ EvaluateSkipped
    \/ EvaluateAppended
    \/ EvaluateFailed
    \/ Finish

\* The run of main(): one call with the default top_n, which runs on to
\* its return.
MainNext ==
    \/ EnterFromMain
    \/ EvaluateSkipped
    \/ EvaluateAppended
    \/ EvaluateFailed
    \/ Finish

MainSpec == Init /\ [][MainNext]_vars /\ WF_vars(Running)

\* get_headline_sentiment alone, on every drawn pair of adapter responses
SentimentInit ==
    /\ CallInit
    /\ stock_universe = <<>>
    /\ news_enabled = call_in.enabled
    /\ top_n = 0
    /\ pc = "idle"
    /\ idx = 0
    /\ recommendations = <<>>
    /\ progress = 0
    /\ error_log = <<>>
    /\ lookup_calls = {}
    /\ outcomes = <<>>
    /\ result = <<>>

SentimentNext == CallSentiment

SentimentSpec == SentimentInit /\ [][SentimentNext]_vars

TypeOK ==
    /\ pc \in {"idle", "loop", "done", "raised"}
    /\ idx \in 0..(Len(stock_universe) + 1)
    /\ progress \in 0..Len(stock_universe)

----------------------------------------------------------------------------
(* Properties *)

Positions == 1..Len(outcomes)
Emitted == 1..Len(result)
Positive(score) == Less(Zero, score)
Minimum(a, b) == IF a < b THEN a ELSE b

\* the records the iterations so far have built, in iteration order
RECURSIVE built_records(_)
built_records(os) ==
    IF os = <<>> THEN <<>>
    ELSE (IF Head(os).kind = "rec" THEN << Head(os).rec >> ELSE <<>>)
         \o built_records(Tail(os))

\* C1: an exception in one candidate's evaluation is caught at the
\* per-candidate boundary: generate_recommendations never raises, the loop
\* goes on to the end of the universe, the failing candidate contributes no
\* record, and the records of all other occurrences are exactly the ones
\* their own evaluations built.
C1_FailureIsolated ==
    /\ pc # "raised"
    /\ pc = "loop" =>
          /\ Len(outcomes) = idx - 1
          /\ recommendations = built_records(outcomes)
    /\ pc = "done" =>
          /\ Len(outcomes) = Len(stock_universe)
          /\ \A k \in Positions :
                outcomes[k].kind = "exc" =>
                   /\ \A i \in 1..Len(recommendations) :
                         recommendations[i].occurrence # k
                   /\ \E e \in 1..Len(error_log) :
                         error_log[e].occurrence = k
          /\ \A k \in Positions :
                (outcomes[k].kind = "rec" /\ Positive(outcomes[k].score)) =>
                   \E i \in 1..Len(recommendations) :
                      recommendations[i] = outcomes[k].rec
          /\ \A i \in Emitted :
                /\ outcomes[result[i].occurrence].kind = "rec"
                /\ outcomes[result[i].occurrence].rec = result[i]

\* a run in which one candidate failed and a later one was still emitted
C1_Witness ==
    /\ pc = "done"
    /\ \E k \in Positions, i \in Emitted :
          /\ outcomes[k].kind = "exc"
          /\ result[i].occurrence > k

string_titles(articles) ==
    \A k \in 1..Len(articles) :
       ~(articles[k].has_title /\ articles[k].title.kind = "none")

\* C2: in get_headline_sentiment each adapter call is guarded on its own:
\* when one adapter is unavailable or fails and the other returns headlines,
\* the call still returns, and what it scores is the other adapter's
\* headlines.
C2_AdaptersGuarded ==
    call_pc = "returned" =>
       LET news == get_trending_news(call_in.enabled, call_in.http)
       IN  /\ (~call_in.search.ok /\ news # <<>> /\ string_titles(news)) =>
                 /\ ~call_out.raised
                 /\ call_out.value.total_headlines = Len(news)
           /\ ((~call_in.enabled \/ ~call_in.http.ok)
                 /\ call_in.search.ok /\ call_in.search.results # <<>>) =>
                 /\ ~call_out.raised
                 /\ call_out.value.total_headlines
                       = Len(call_in.search.results)

\* C3: the enrichment step never raises: every candidate with at least one
\* headline gets a record, whatever the company lookup does, with
\* company_name the looked-up name or the symbol and sector the looked-up
\* sector or "Unknown".
C3_EnrichmentNeverRaises ==
    \A k \in Positions :
       (outcomes[k].collected /\ outcomes[k].headlines > 0) =>
          /\ outcomes[k].kind = "rec"
          /\ outcomes[k].rec.company_name
                \in { stock_universe[k], "Acme Corp" }
          /\ outcomes[k].rec.sector \in { "Unknown", "Energy" }

\* C4: the returned list holds no record whose confidence_score is <= 0.
C4_NoNonPositiveScore ==
    pc = "done" => \A i \in Emitted : Positive(result[i].confidence_score)

\* a record with a score <= 0 was built and is missing from a result that
\* top_n did not cut
C4_Witness ==
    /\ pc = "done"
    /\ top_n >= Len(stock_universe)
    /\ result # <<>>
    /\ \E k \in Positions :
          /\ outcomes[k].kind = "rec"
          /\ ~Positive(outcomes[k].score)

\* C5: for a count top_n >= 0 the returned list has min(top_n, number of
\* candidates whose sentiment score is > 0) records.
C5_LengthIsMinimum ==
    (pc = "done" /\ top_n >= 0) =>
       Len(result) =
          Minimum(top_n,
                  Cardinality({ k \in Positions :
                                  Positive(outcomes[k].score) }))

\* C6: the returned list is the first part of the descending order of the
\* positive records, in which records of equal score keep the order of
\* their candidates in the universe.
C6_SortedStable ==
    pc = "done" =>
       /\ Len(result) <= Len(recommendations)
       /\ result = SubSeq(recommendations, 1, Len(result))
       /\ \A i, j \in 1..Len(recommendations) :
             i < j =>
                /\ ~Less(recommendations[i].confidence_score,
                         recommendations[j].confidence_score)
                /\ recommendations[i].confidence_score
                      = recommendations[j].confidence_score
                   => recommendations[i].occurrence
                         < recommendations[j].occurrence

\* two records of equal score are emitted
C6_Witness ==
    /\ pc = "done"
    /\ \E i, j \in Emitted :
          /\ i < j
          /\ result[i].confidence_score = result[j].confidence_score

\* C7: a candidate whose collector returns zero headlines is left out of
\* everything that follows: no company lookup, no record, no error.
C7_NoHeadlinesExcluded ==
    \A k \in Positions :
       (outcomes[k].collected /\ outcomes[k].headlines = 0) =>
          /\ k \notin lookup_calls
          /\ \A i \in 1..Len(recommendations) :
                recommendations[i].occurrence # k
          /\ \A i \in Emitted : result[i].occurrence # k
          /\ \A e \in 1..Len(error_log) : error_log[e].occurrence # k

\* a finished run in which one candidate had no headline and another one
\* was emitted
C7_Witness ==
    /\ pc = "done"
    /\ result # <<>>
    /\ \E k \in Positions :
          outcomes[k].collected /\ outcomes[k].headlines = 0

\* C8: no two records of the returned list carry the same symbol.
C8_SymbolUnique ==
    pc = "done" =>
       \A i, j \in Emitted : i # j => result[i].symbol # result[j].symbol

\* C9: a returned sentiment has 0 <= positive <= total and
\* 0 <= negative <= total, its score is (positive - negative) / total and
\* lies in [-1, 1], and with no headline the counts and the score are 0.
C9_CountsBounded ==
    (call_pc = "returned" /\ ~call_out.raised) =>
       LET v == call_out.value
       IN  /\ 0 <= v.positive_headlines
           /\ v.positive_headlines <= v.total_headlines
           /\ 0 <= v.negative_headlines
           /\ v.negative_headlines <= v.total_headlines
           /\ v.sentiment_score.den > 0
           /\ v.sentiment_score.num * v.total_headlines
                 = (v.positive_headlines - v.negative_headlines)
                      * v.sentiment_score.den
           /\ -v.sentiment_score.den <= v.sentiment_score.num
           /\ v.sentiment_score.num <= v.sentiment_score.den
           /\ v.total_headlines = 0 =>
                 /\ v.positive_headlines = 0
                 /\ v.negative_headlines = 0
                 /\ v.sentiment_score = Zero

\* a call in which one headline counted on both sides
C9_Witness ==
    /\ call_pc = "returned"
    /\ ~call_out.raised
    /\ call_out.value.positive_headlines
          + call_out.value.negative_headlines
             > call_out.value.total_headlines

\* C11: when the company lookup returns a string that does not parse, a
\* candidate with at least one headline still gets its record, with
\* company_name the symbol and sector "Unknown", and no exception is logged
\* for it.
C11_UnparseableFallsBack ==
    \A k \in Positions :
       (outcomes[k].lookup_called
          /\ outcomes[k].lookup.kind = "str"
          /\ ~outcomes[k].lookup.raised
          /\ outcomes[k].lookup.text \in { DocError }) =>
          /\ outcomes[k].headlines > 0
          /\ outcomes[k].kind = "rec"
          /\ outcomes[k].rec.symbol = stock_universe[k]
          /\ outcomes[k].rec.company_name = stock_universe[k]
          /\ outcomes[k].rec.sector = "Unknown"
          /\ \A e \in 1..Len(error_log) : error_log[e].occurrence # k
          /\ pc = "loop" =>
                \E i \in 1..Len(recommendations) :
                   recommendations[i] = outcomes[k].rec

\* a finished run that emitted the record of a candidate whose lookup
\* returned the unparseable text
C11_Witness ==
    /\ pc = "done"
    /\ \E i \in Emitted :
          /\ outcomes[result[i].occurrence].lookup = LookupStr(DocError)
          /\ result[i].company_name = result[i].symbol
          /\ result[i].sector = "Unknown"

\* the titles one call works on, from the responses drawn for it
call_news == get_trending_news(call_in.enabled, call_in.http)
call_titles == news_titles(call_news) \o google_titles(call_in.search.results)
has_word(words, t) ==
    \E k \in 1..Len(words) : str_in(words[k], str_lower(t.text))

\* C12: positive_headlines is the number of headlines that contain at least
\* one positive word and negative_headlines the number that contain at least
\* one negative word, each headline counting at most once per lexicon and a
\* headline with words of both counting in both; total_headlines is the
\* number of headlines.
C12_PerLexiconPerItem ==
    (call_pc = "returned" /\ ~call_out.raised) =>
       /\ call_out.value.positive_headlines
             = Cardinality({ k \in 1..Len(call_titles) :
                               has_word(positive_words, call_titles[k]) })
       /\ call_out.value.negative_headlines
             = Cardinality({ k \in 1..Len(call_titles) :
                               has_word(negative_words, call_titles[k]) })
       /\ call_out.value.total_headlines = Len(call_titles)

\* a call whose headlines include one with two positive words and one with
\* words of both lexicons
C12_Witness ==
    /\ call_pc = "returned"
    /\ ~call_out.raised
    /\ \E k \in 1..Len(call_titles) : call_titles[k].text = RecordGain
    /\ \E k \in 1..Len(call_titles) : call_titles[k].text = ProfitFalls
    /\ call_out.value.positive_headlines >= 2
    /\ call_out.value.negative_headlines >= 1

\* C13: the headlines of one call are the news titles in the order returned
\* followed by the search titles in the order returned, none dropped,
\* merged or moved; sample_headlines is the first min(3, total_headlines)
\* of them.
C13_NewsThenSearch ==
    (call_pc = "returned" /\ ~call_out.raised) =>
       LET n == Len(call_news)
           g == Len(call_in.search.results)
           sample == call_out.value.sample_headlines
       IN  /\ call_out.value.total_headlines = n + g
           /\ Len(sample) = Minimum(3, n + g)
           /\ \A i \in 1..Len(sample) :
                 IF i <= n
                 THEN sample[i] = (IF call_news[i].has_title
                                   THEN call_news[i].title
                                   ELSE PyStr(<<>>))
                 ELSE sample[i] =
                         (IF call_in.search.results[i - n].title.kind = "none"
                          THEN PyStr(<<>>)
                          ELSE call_in.search.results[i - n].title)

\* a call with four headlines, the same title in the news and in the search
\* results, that differ in the third place from the first
C13_Witness ==
    /\ call_pc = "returned"
    /\ ~call_out.raised
    /\ call_out.value.total_headlines = 4
    /\ Len(call_news) = 2
    /\ call_out.value.sample_headlines[1] = call_out.value.sample_headlines[3]
    /\ call_out.value.sample_headlines[1] # call_out.value.sample_headlines[2]

\* while the loop runs, the iterations done are exactly the candidates in
\* front of idx, in universe order, each with one advance
LoopCounts ==
    /\ pc = "loop" =>
          /\ idx \in 1..(Len(stock_universe) + 1)
          /\ progress = idx - 1
          /\ Len(outcomes) = idx - 1
    /\ pc = "done" =>
          /\ progress = Len(stock_universe)
          /\ Len(outcomes) = Len(stock_universe)
    /\ pc \in {"loop", "done"} =>
          \A k \in Positions : outcomes[k].symbol = stock_universe[k]

\* an iteration handles the candidate at idx and advances once, whatever
\* its path; the final step is taken only behind the last candidate
LoopStep ==
    /\ (pc = "loop" /\ pc' = "loop") =>
          /\ idx' = idx + 1
          /\ progress' = progress + 1
          /\ Len(outcomes') = Len(outcomes) + 1
          /\ outcomes'[idx].symbol = stock_universe[idx]
          /\ outcomes'[idx].kind \in {"skip", "rec", "exc"}
    /\ (pc = "loop" /\ pc' # "loop") =>
          /\ pc' = "done"
          /\ idx = Len(stock_universe) + 1
          /\ progress = Len(stock_universe)

\* C14: the loop evaluates every occurrence of the universe exactly once, in
\* universe order, with one progress advance per occurrence on each of the
\* three paths; it terminates with the progress count equal to the length
\* of the universe, and filter, sort and truncate run only after that.
C14_LoopVisitsEachOnce ==
    /\ []LoopCounts
    /\ [][LoopStep]_vars
    /\ (pc = "loop") ~> (pc = "done" /\ progress = Len(stock_universe))

\* a finished run over two candidates, one skipped for want of headlines and
\* one dropped by the exception handler
C14_Witness ==
    /\ pc = "done"
    /\ progress = 2
    /\ \E j, k \in Positions :
          outcomes[j].kind = "skip" /\ outcomes[k].kind = "exc"

====
